---- MODULE Spec2Model ----
(***************************************************************************)
(* Fee, spread and portfolio calculation engine of the Multi-Metal Token   *)
(* App (backend/fees.js and its callers in the HTTP server).               *)
(*                                                                         *)
(* Numbers.  The JavaScript code computes in IEEE doubles and rounds with  *)
(* Math.round(x * 100) / 100.  The model computes the same expressions in  *)
(* exact decimal fixed point: every quantity is an integer count of a      *)
(* stated unit, chosen per function so that every intermediate value of    *)
(* the code is an integer and fits TLC's 32-bit integers.                  *)
(*   money returned after rounding ....... paise (1/100 rupee)             *)
(*   trade amount ........................ whole units of the asset        *)
(*   trade intermediates ................. 1/FeeUnit paise                  *)
(*   swap percentage ..................... rate * 1000 (per mille)         *)
(*   SIP fee (returned unrounded) ........ 1/SipUnit rupee                  *)
(*   redemption amount ................... 1/GramUnit gram                  *)
(*   redemption intermediates, netValue .. 1/RedUnit paise                  *)
(*   limit amounts ....................... 1/LimitUnit gram or BINR          *)
(*   profit/loss amounts ................. 1/PlUnit paise                    *)
(*   holding balances and prices ......... whole units, rupees               *)
(*   annual fee intermediates ............ 1/AnnualUnit paise                *)
(*   GST amounts ......................... 1/GstUnit paise                   *)
(***************************************************************************)
EXTENDS Integers, FiniteSets, Sequences, TLC

VARIABLES last, heap, users, requests, payments, refunds

\* the stores of the HTTP server and of the payments module, and the trade
\* requests in flight
server == <<users, requests, payments, refunds>>

vars == <<last, heap, server>>

(***************************************************************************)
(* Bounds of the model and the input sets drawn from them.                 *)
(***************************************************************************)
MaxAmount == 4
MaxDelta == 12
MaxSipAmount == 4
MaxGramDelta == 3

Assets == {"gold", "silver", "platinum", "stablecoin"}
Types == {"buy", "sell"}
Users == {[kycLevel |-> 1], [kycLevel |-> 3]}

\* trade amounts (units) and market prices (paise per unit)
TradeAmounts == (0 - 1) .. MaxAmount
TradePrices == {0, 7500, 8500, 280000, 600000}

\* one call of the module: the function, its arguments, the exception it
\* threw ("none" when it returned) and the value it returned
NoCall == [fn |-> "none", args |-> [none |-> TRUE], threw |-> "none",
           out |-> [none |-> TRUE]]

Returned(f, a, o) == [fn |-> f, args |-> a, threw |-> "none", out |-> o]

(***************************************************************************)
(* Math.round(n / d) for an integer n and d > 0: the nearest integer, an   *)
(* exact half going up (towards +infinity), as ECMAScript defines it.      *)
(***************************************************************************)
MathRound(n, d) ==
    LET q == n \div d
        r == n % d
    IN  IF 2 * r >= d THEN q + 1 ELSE q

\* the value of a JavaScript number expression that may be NaN
NaN == [isNaN |-> TRUE, milli |-> 0]
Num(m) == [isNaN |-> FALSE, milli |-> m]

(***************************************************************************)
(* calculateFees({type, asset, amount, marketPrice, user})                 *)
(* Intermediates in 1/FeeUnit paise; 0.01 = 1/100, 0.001 = 1/1000,         *)
(* 0.18 = 9/50.  totalFeePercentage is left unrounded by the code; it is   *)
(* kept in 1/1000 percent, and is NaN for 0/0.                             *)
(***************************************************************************)
FeeUnit == 50000

\* calculateFees with the direction-dependent platform rate its conditional
\* suggests: 0.2% on a sell
calculateFees_asymmetric(type, asset, amount, marketPrice, user) ==
    LET principalAmount == amount * marketPrice
        spreadFee == principalAmount * (FeeUnit \div 100)
        platformFeeRate == IF type = "buy" THEN FeeUnit \div 1000
                                           ELSE FeeUnit \div 500
        platformFee == principalAmount * platformFeeRate
        totalFee == spreadFee + platformFee
        gst == (totalFee \div 50) * 9
    IN  [spreadFee |-> MathRound(spreadFee, FeeUnit),
         platformFee |-> MathRound(platformFee, FeeUnit),
         gst |-> MathRound(gst, FeeUnit),
         totalFee |-> MathRound(totalFee + gst, FeeUnit),
         totalFeePercentage |->
             IF principalAmount = 0
             THEN NaN
             ELSE Num((((spreadFee + platformFee + gst) \div principalAmount)
                        * 100 * 1000) \div FeeUnit)]

calculateFees(type, asset, amount, marketPrice, user) ==
    LET principalAmount == amount * marketPrice
        spreadFee == principalAmount * (FeeUnit \div 100)
        platformFeeRate == IF type = "buy" THEN FeeUnit \div 1000
                                           ELSE FeeUnit \div 1000
        platformFee == principalAmount * platformFeeRate
        totalFee == spreadFee + platformFee
        gst == (totalFee \div 50) * 9
    IN  [spreadFee |-> MathRound(spreadFee, FeeUnit),
         platformFee |-> MathRound(platformFee, FeeUnit),
         gst |-> MathRound(gst, FeeUnit),
         totalFee |-> MathRound(totalFee + gst, FeeUnit),
         totalFeePercentage |->
             IF principalAmount = 0
             THEN NaN
             ELSE Num((((spreadFee + platformFee + gst) \div principalAmount)
                        * 100 * 1000) \div FeeUnit)]

CalculateFees ==
    /\ \E type \in Types, asset \in Assets, amount \in TradeAmounts,
          marketPrice \in TradePrices, user \in Users :
           last' = Returned("calculateFees",
                            [type |-> type, asset |-> asset, amount |-> amount,
                             marketPrice |-> marketPrice, user |-> user],
                            calculateFees(type, asset, amount, marketPrice, user))
    /\ UNCHANGED <<heap, server>>

(***************************************************************************)
(* calculateSwapFee(amount): amount in paise, percentage as rate * 1000.   *)
(***************************************************************************)
SwapThresholds == {0, 50000, 100000, 500000, 1000000}

\* swap notionals (paise): every amount within MaxDelta paise of a threshold
SwapAmounts ==
    {t * 100 + d : t \in SwapThresholds, d \in (0 - MaxDelta) .. MaxDelta}

\* calculateSwapFee with the top threshold exclusive (> for >=)
calculateSwapFee_exclusive(amount) ==
    LET percentage ==
            IF amount > 1000000 * 100 THEN 1
            ELSE IF amount >= 500000 * 100 THEN 2
            ELSE IF amount >= 100000 * 100 THEN 3
            ELSE IF amount >= 50000 * 100 THEN 4
            ELSE 5
        fee == amount * percentage
    IN  [percentage |-> percentage,
         fee |-> MathRound(fee, 1000),
         amount |-> amount]

\* calculateSwapFee with the rates of two tiers exchanged
calculateSwapFee_misordered(amount) ==
    LET percentage ==
            IF amount >= 1000000 * 100 THEN 1
            ELSE IF amount >= 500000 * 100 THEN 3
            ELSE IF amount >= 100000 * 100 THEN 2
            ELSE IF amount >= 50000 * 100 THEN 4
            ELSE 5
        fee == amount * percentage
    IN  [percentage |-> percentage,
         fee |-> MathRound(fee, 1000),
         amount |-> amount]

calculateSwapFee(amount) ==
    LET percentage ==
            IF amount >= 1000000 * 100 THEN 1
            ELSE IF amount >= 500000 * 100 THEN 2
            ELSE IF amount >= 100000 * 100 THEN 3
            ELSE IF amount >= 50000 * 100 THEN 4
            ELSE 5
        fee == amount * percentage
    IN  [percentage |-> percentage,
         fee |-> MathRound(fee, 1000),
         amount |-> amount]

CalculateSwapFee ==
    /\ \E amount \in SwapAmounts :
           last' = Returned("calculateSwapFee", [amount |-> amount],
                            calculateSwapFee(amount))
    /\ UNCHANGED <<heap, server>>

(***************************************************************************)
(* calculateSIPFee(frequency): the fee is returned unrounded, in 1/SipUnit *)
(* rupee (50/30 and 50/4 are exact in that unit).                          *)
(***************************************************************************)
SipUnit == 60

Frequencies == {"daily", "weekly", "monthly", "yearly", "undefined"}

\* plan amounts (rupees) of the SIP plans the fee is asked for
SipAmounts == {100 * k : k \in 1 .. MaxSipAmount}

\* calculateSIPFee charging nothing for a frequency it does not know
calculateSIPFee_noDefault(frequency) ==
    LET baseMonthlyFee == 50 * SipUnit
    IN  CASE frequency = "daily" -> baseMonthlyFee \div 30
          [] frequency = "weekly" -> baseMonthlyFee \div 4
          [] frequency = "monthly" -> baseMonthlyFee
          [] OTHER -> 0

calculateSIPFee(frequency) ==
    LET baseMonthlyFee == 50 * SipUnit
    IN  CASE frequency = "daily" -> baseMonthlyFee \div 30
          [] frequency = "weekly" -> baseMonthlyFee \div 4
          [] frequency = "monthly" -> baseMonthlyFee
          [] OTHER -> baseMonthlyFee

\* the call made for a plan {asset, amount, frequency} by POST /api/sip/create
CalculateSIPFee ==
    /\ \E frequency \in Frequencies, amount \in SipAmounts :
           last' = Returned("calculateSIPFee",
                            [frequency |-> frequency, amount |-> amount],
                            calculateSIPFee(frequency))
    /\ UNCHANGED <<heap, server>>

(***************************************************************************)
(* calculateRedemptionFees(asset, amount, deliveryMethod): amount in       *)
(* 1/GramUnit gram, prices in rupees per gram, intermediates and the       *)
(* unrounded netValue in 1/RedUnit paise; 0.005 = 1/200, 0.01 = 1/100.     *)
(***************************************************************************)
GramUnit == 10
RedUnit == 20

AssetInputs == Assets \cup {"copper"}
DeliveryMethods == {"HOME", "STORE", "VAULT", "COURIER"}

\* redeemed amounts: within MaxGramDelta tenths of 0, 1, 10, 50 and 60 grams
RedemptionAmounts ==
    {g * GramUnit + d : g \in {0, 1, 10, 50, 60},
                        d \in (0 - MaxGramDelta) .. MaxGramDelta}

marketPrices == [gold |-> 6000, silver |-> 75, platinum |-> 2800]

\* value = amount * (marketPrices[asset] || 1), in 1/RedUnit paise
redemptionValue(asset, amount) ==
    LET price == IF asset \in DOMAIN marketPrices /\ marketPrices[asset] # 0
                 THEN marketPrices[asset]
                 ELSE 1
    IN  amount * price * ((100 * RedUnit) \div GramUnit)

\* calculateRedemptionFees with the first HOME tier exclusive (< for <=)
calculateRedemptionFees_strictTier(asset, amount, deliveryMethod) ==
    LET value == redemptionValue(asset, amount)
        deliveryFee ==
            CASE deliveryMethod = "HOME" ->
                     IF amount < 10 * GramUnit THEN 50
                     ELSE IF amount <= 50 * GramUnit THEN 100
                     ELSE 200
              [] deliveryMethod = "STORE" -> 0
              [] deliveryMethod = "VAULT" -> 25
              [] OTHER -> 50
        insuranceFee == value \div 200
        processingFee == value \div 100
        totalFees == deliveryFee * 100 * RedUnit + insuranceFee + processingFee
    IN  [deliveryFee |-> deliveryFee * 100,
         insuranceFee |-> MathRound(insuranceFee, RedUnit),
         processingFee |-> MathRound(processingFee, RedUnit),
         totalFees |-> MathRound(totalFees, RedUnit),
         netValue |-> value - totalFees]

calculateRedemptionFees(asset, amount, deliveryMethod) ==
    LET value == redemptionValue(asset, amount)
        deliveryFee ==
            CASE deliveryMethod = "HOME" ->
                     IF amount <= 10 * GramUnit THEN 50
                     ELSE IF amount <= 50 * GramUnit THEN 100
                     ELSE 200
              [] deliveryMethod = "STORE" -> 0
              [] deliveryMethod = "VAULT" -> 25
              [] OTHER -> 50
        insuranceFee == value \div 200
        processingFee == value \div 100
        totalFees == deliveryFee * 100 * RedUnit + insuranceFee + processingFee
    IN  [deliveryFee |-> deliveryFee * 100,
         insuranceFee |-> MathRound(insuranceFee, RedUnit),
         processingFee |-> MathRound(processingFee, RedUnit),
         totalFees |-> MathRound(totalFees, RedUnit),
         netValue |-> value - totalFees]

CalculateRedemptionFees ==
    /\ \E asset \in AssetInputs, amount \in RedemptionAmounts,
          deliveryMethod \in DeliveryMethods :
           last' = Returned("calculateRedemptionFees",
                            [asset |-> asset, amount |-> amount,
                             deliveryMethod |-> deliveryMethod],
                            calculateRedemptionFees(asset, amount, deliveryMethod))
    /\ UNCHANGED <<heap, server>>

(***************************************************************************)
(* getMinimumAmounts(asset) and getMaximumAmounts(asset, user): amounts    *)
(* and INR equivalents in 1/LimitUnit of a unit (the smallest minimum is   *)
(* 0.1 gram), the level multipliers 0.1, 0.5, 1.0, 2.0 in 1/LimitUnit.     *)
(***************************************************************************)
LimitUnit == 10

MaxKycLevel == 5

\* users with kycLevel 0 .. MaxKycLevel, and one with no kycLevel at all
LimitUsers == {[kycLevel |-> k] : k \in 0 .. MaxKycLevel} \cup {[userId |-> 1]}

\* a call that threw instead of returning
Threw(f, a, e) == [fn |-> f, args |-> a, threw |-> e, out |-> [none |-> TRUE]]

minimums ==
    [gold |-> [amount |-> 1, unit |-> "gram", inr |-> 600 * LimitUnit],
     silver |-> [amount |-> 1 * LimitUnit, unit |-> "gram", inr |-> 75 * LimitUnit],
     platinum |-> [amount |-> 1, unit |-> "gram", inr |-> 280 * LimitUnit],
     stablecoin |-> [amount |-> 100 * LimitUnit, unit |-> "BINR",
                     inr |-> 100 * LimitUnit]]

getMinimumAmounts(asset) ==
    IF asset \in DOMAIN minimums THEN minimums[asset] ELSE minimums.gold

GetMinimumAmounts ==
    /\ \E asset \in AssetInputs :
           last' = Returned("getMinimumAmounts", [asset |-> asset],
                            getMinimumAmounts(asset))
    /\ UNCHANGED <<heap, server>>

baseMaximums ==
    [gold |-> [amount |-> 1000, unit |-> "gram", inr |-> 6000000],
     silver |-> [amount |-> 50000, unit |-> "gram", inr |-> 3750000],
     platinum |-> [amount |-> 1000, unit |-> "gram", inr |-> 2800000],
     stablecoin |-> [amount |-> 10000000, unit |-> "BINR", inr |-> 10000000]]

levelMultipliers == <<1, 5, 10, 20>>

\* getMaximumAmounts with the VIP multiplier mistyped (0.2 for 2.0)
getMaximumAmounts_vipTenth(asset, user) ==
    LET baseMax == baseMaximums[asset]
        multipliers == <<1, 5, 10, 2>>
        multiplier == IF "kycLevel" \in DOMAIN user
                         /\ user.kycLevel \in DOMAIN multipliers
                      THEN multipliers[user.kycLevel]
                      ELSE 1
    IN  [amount |-> baseMax.amount * multiplier,
         unit |-> baseMax.unit,
         inr |-> baseMax.inr * multiplier]

\* getMaximumAmounts for an asset of baseMaximums, ignoring the user's level
getMaximumAmounts_flat(asset, user) ==
    LET baseMax == baseMaximums[asset]
        multiplier == 1
    IN  [amount |-> baseMax.amount * multiplier,
         unit |-> baseMax.unit,
         inr |-> baseMax.inr * multiplier]

\* getMaximumAmounts for an asset of baseMaximums:
\* multiplier = levelMultipliers[user.kycLevel] || 0.1
getMaximumAmounts(asset, user) ==
    LET baseMax == baseMaximums[asset]
        multiplier == IF "kycLevel" \in DOMAIN user
                         /\ user.kycLevel \in DOMAIN levelMultipliers
                      THEN levelMultipliers[user.kycLevel]
                      ELSE 1
    IN  [amount |-> baseMax.amount * multiplier,
         unit |-> baseMax.unit,
         inr |-> baseMax.inr * multiplier]

\* baseMaximums[asset] is undefined for any other asset, and reading
\* baseMax.amount then throws a TypeError
GetMaximumAmounts ==
    /\ \E asset \in AssetInputs, user \in LimitUsers :
           last' = IF asset \in DOMAIN baseMaximums
                   THEN Returned("getMaximumAmounts",
                                 [asset |-> asset, user |-> user],
                                 getMaximumAmounts(asset, user))
                   ELSE Threw("getMaximumAmounts",
                              [asset |-> asset, user |-> user], "TypeError")
    /\ UNCHANGED <<heap, server>>

(***************************************************************************)
(* calculateProfitLoss(investedAmount, currentValue): the two amounts in   *)
(* 1/PlUnit paise (a balance times a price has fractions of a paisa), the  *)
(* returned profit in paise, the returned profitPercentage in 1/100        *)
(* percent.                                                                *)
(***************************************************************************)
PlUnit == 10

MaxPl == 12

\* amounts up to MaxPl tenths of a paisa, and 80 and 100 rupees
PlAmounts == (0 .. MaxPl) \cup {80 * 100 * PlUnit, 100 * 100 * PlUnit}

\* calculateProfitLoss counting only a strict gain as a profit
calculateProfitLoss_strict(investedAmount, currentValue) ==
    LET profit == currentValue - investedAmount
    IN  [investedAmount |-> investedAmount,
         currentValue |-> currentValue,
         profit |-> MathRound(profit, PlUnit),
         profitPercentage |->
             IF investedAmount > 0
             THEN MathRound(profit * 100 * 100, investedAmount)
             ELSE 0,
         isProfit |-> profit > 0]

calculateProfitLoss(investedAmount, currentValue) ==
    LET profit == currentValue - investedAmount
    IN  [investedAmount |-> investedAmount,
         currentValue |-> currentValue,
         profit |-> MathRound(profit, PlUnit),
         profitPercentage |->
             IF investedAmount > 0
             THEN MathRound(profit * 100 * 100, investedAmount)
             ELSE 0,
         isProfit |-> profit >= 0]

CalculateProfitLoss ==
    /\ \E investedAmount \in PlAmounts, currentValue \in PlAmounts :
           last' = Returned("calculateProfitLoss",
                            [investedAmount |-> investedAmount,
                             currentValue |-> currentValue],
                            calculateProfitLoss(investedAmount, currentValue))
    /\ UNCHANGED <<heap, server>>

(***************************************************************************)
(* calculateDiversification(portfolio): a portfolio maps some of the four  *)
(* assets to a holding; an absent entry is an asset outside its DOMAIN, a  *)
(* holding may lack balance or currentPrice.  Values in rupees, returned   *)
(* values in paise, weights in 1/100 percent, hhi in 1/10000.              *)
(***************************************************************************)
MaxBalance == 2

\* the price each asset is held at in the portfolios drawn
HoldingPrices == [gold |-> 2, silver |-> 1, platinum |-> 2, stablecoin |-> 1]

\* the holdings of one asset: every balance up to MaxBalance, and one holding
\* that lacks its balance (gold, platinum) or its currentPrice (the others)
Holdings(asset) ==
    {[balance |-> b, currentPrice |-> HoldingPrices[asset]] :
         b \in 0 .. MaxBalance}
        \cup (IF asset \in {"gold", "platinum"}
              THEN {[currentPrice |-> HoldingPrices[asset]]}
              ELSE {[balance |-> 1]})

Portfolios ==
    UNION {{p \in [S -> UNION {Holdings(a) : a \in S}] :
                \A a \in S : p[a] \in Holdings(a)} : S \in SUBSET Assets}

assets == <<"gold", "silver", "platinum", "stablecoin">>

\* holdingValue taking a holding that lacks its balance as a balance of 1
holdingValue_defaultBalance(portfolio, asset) ==
    IF asset \in DOMAIN portfolio /\ "currentPrice" \in DOMAIN portfolio[asset]
    THEN (IF "balance" \in DOMAIN portfolio[asset]
          THEN portfolio[asset].balance
          ELSE 1) * portfolio[asset].currentPrice
    ELSE 0

\* portfolio[asset]?.balance * portfolio[asset]?.currentPrice || 0
holdingValue(portfolio, asset) ==
    IF /\ asset \in DOMAIN portfolio
       /\ "balance" \in DOMAIN portfolio[asset]
       /\ "currentPrice" \in DOMAIN portfolio[asset]
    THEN portfolio[asset].balance * portfolio[asset].currentPrice
    ELSE 0

\* array.reduce((sum, x) => sum + f(x), 0)
RECURSIVE SumOver(_, _, _)
SumOver(f(_), seq, i) ==
    IF i > Len(seq) THEN 0 ELSE f(seq[i]) + SumOver(f, seq, i + 1)

\* calculateDiversification rating a portfolio of no value HIGH, as it rates
\* every other score of 0
calculateDiversification_emptyHigh(portfolio) ==
    LET Value(asset) == holdingValue(portfolio, asset)
        Square(asset) == Value(asset) * Value(asset)
        totalValue == SumOver(Value, assets, 1)
        squares == SumOver(Square, assets, 1)
        totalSquared == totalValue * totalValue
        diversificationScore ==
            MathRound((totalSquared - squares) * 100, totalSquared)
    IN  IF totalValue = 0
        THEN [diversificationScore |-> 0, allocation |-> <<>>,
              riskLevel |-> "HIGH"]
        ELSE [diversificationScore |-> diversificationScore,
              allocation |->
                  [asset \in {assets[i] : i \in 1 .. Len(assets)} |->
                      [weight |-> MathRound(Value(asset) * 100 * 100, totalValue),
                       value |-> Value(asset) * 100]],
              riskLevel |-> IF diversificationScore >= 70 THEN "LOW"
                            ELSE IF diversificationScore >= 40 THEN "MEDIUM"
                            ELSE "HIGH",
              hhi |-> MathRound(squares * 10000, totalSquared)]

\* calculateDiversification scoring the concentration (hhi for 1 - hhi)
calculateDiversification_concentration(portfolio) ==
    LET Value(asset) == holdingValue(portfolio, asset)
        Square(asset) == Value(asset) * Value(asset)
        totalValue == SumOver(Value, assets, 1)
        squares == SumOver(Square, assets, 1)
        totalSquared == totalValue * totalValue
        diversificationScore ==
            MathRound(squares * 100, totalSquared)
    IN  IF totalValue = 0
        THEN [diversificationScore |-> 0, allocation |-> <<>>,
              riskLevel |-> "LOW"]
        ELSE [diversificationScore |-> diversificationScore,
              allocation |->
                  [asset \in {assets[i] : i \in 1 .. Len(assets)} |->
                      [weight |-> MathRound(Value(asset) * 100 * 100, totalValue),
                       value |-> Value(asset) * 100]],
              riskLevel |-> IF diversificationScore >= 70 THEN "LOW"
                            ELSE IF diversificationScore >= 40 THEN "MEDIUM"
                            ELSE "HIGH",
              hhi |-> MathRound(squares * 10000, totalSquared)]

\* calculateDiversification truncating the score (Math.floor for Math.round)
calculateDiversification_floor(portfolio) ==
    LET Value(asset) == holdingValue(portfolio, asset)
        Square(asset) == Value(asset) * Value(asset)
        totalValue == SumOver(Value, assets, 1)
        squares == SumOver(Square, assets, 1)
        totalSquared == totalValue * totalValue
        diversificationScore ==
            ((totalSquared - squares) * 100) \div totalSquared
    IN  IF totalValue = 0
        THEN [diversificationScore |-> 0, allocation |-> <<>>,
              riskLevel |-> "LOW"]
        ELSE [diversificationScore |-> diversificationScore,
              allocation |->
                  [asset \in {assets[i] : i \in 1 .. Len(assets)} |->
                      [weight |-> MathRound(Value(asset) * 100 * 100, totalValue),
                       value |-> Value(asset) * 100]],
              riskLevel |-> IF diversificationScore >= 70 THEN "LOW"
                            ELSE IF diversificationScore >= 40 THEN "MEDIUM"
                            ELSE "HIGH",
              hhi |-> MathRound(squares * 10000, totalSquared)]

\* hhi = sum of (value / totalValue)^2 = squares / totalValue^2
calculateDiversification(portfolio) ==
    LET Value(asset) == holdingValue(portfolio, asset)
        Square(asset) == Value(asset) * Value(asset)
        totalValue == SumOver(Value, assets, 1)
        squares == SumOver(Square, assets, 1)
        totalSquared == totalValue * totalValue
        diversificationScore ==
            MathRound((totalSquared - squares) * 100, totalSquared)
    IN  IF totalValue = 0
        THEN [diversificationScore |-> 0, allocation |-> <<>>,
              riskLevel |-> "LOW"]
        ELSE [diversificationScore |-> diversificationScore,
              allocation |->
                  [asset \in {assets[i] : i \in 1 .. Len(assets)} |->
                      [weight |-> MathRound(Value(asset) * 100 * 100, totalValue),
                       value |-> Value(asset) * 100]],
              riskLevel |-> IF diversificationScore >= 70 THEN "LOW"
                            ELSE IF diversificationScore >= 40 THEN "MEDIUM"
                            ELSE "HIGH",
              hhi |-> MathRound(squares * 10000, totalSquared)]

CalculateDiversification ==
    /\ \E portfolio \in Portfolios :
           last' = Returned("calculateDiversification", [portfolio |-> portfolio],
                            calculateDiversification(portfolio))
    /\ UNCHANGED <<heap, server>>

(***************************************************************************)
(* calculateAnnualFees(sipPlans): plan.amount in paise, plan.sipFee in     *)
(* 1/SipUnit rupee as calculateSIPFee returns it, intermediates in         *)
(* 1/AnnualUnit paise, results in paise; 0.01 = 1/100.                     *)
(***************************************************************************)
AnnualUnit == 300
MaxPlanAmount == 3

\* monthly amounts of a plan: a few paise, and 1000 rupees with and without
\* 3 paise
PlanAmounts == (0 .. MaxPlanAmount) \cup {1000 * 100, 1000 * 100 + 3}

\* the plans POST /api/sip/create stores: sipFee = calculateSIPFee(frequency)
Plans ==
    {[amount |-> amount, sipFee |-> calculateSIPFee(frequency)] :
        amount \in PlanAmounts, frequency \in Frequencies}

\* the lists of at most two plans
SipPlanLists ==
    {<<>>} \cup {<<plan>> : plan \in Plans}
           \cup {<<plan, other>> : plan \in Plans, other \in Plans}

\* calculateAnnualFees projecting trading fees on the buy side only
calculateAnnualFees_buyOnly(sipPlans) ==
    LET SipFee(plan) == plan.sipFee * ((100 * AnnualUnit) \div SipUnit)
        Trading(plan) == (plan.amount * 12) * (AnnualUnit \div 100)
        monthlySIPFees == SumOver(SipFee, sipPlans, 1)
        annualSIPFees == monthlySIPFees * 12
        projectedTradingFees ==
            [buy |-> SumOver(Trading, sipPlans, 1), sell |-> 0, swap |-> 0]
        totalAnnualFees ==
            annualSIPFees + projectedTradingFees.buy
                + projectedTradingFees.sell + projectedTradingFees.swap
    IN  [annualSIPFees |-> MathRound(annualSIPFees, AnnualUnit),
         projectedTradingFees |->
             [buy |-> MathRound(projectedTradingFees.buy, AnnualUnit),
              sell |-> MathRound(projectedTradingFees.sell, AnnualUnit),
              swap |-> MathRound(projectedTradingFees.swap, AnnualUnit)],
         totalAnnualFees |-> MathRound(totalAnnualFees, AnnualUnit)]

calculateAnnualFees(sipPlans) ==
    LET SipFee(plan) == plan.sipFee * ((100 * AnnualUnit) \div SipUnit)
        Trading(plan) == (plan.amount * 12) * (AnnualUnit \div 100)
        monthlySIPFees == SumOver(SipFee, sipPlans, 1)
        annualSIPFees == monthlySIPFees * 12
        projectedTradingFees ==
            [buy |-> SumOver(Trading, sipPlans, 1),
             sell |-> SumOver(Trading, sipPlans, 1),
             swap |-> 0]
        totalAnnualFees ==
            annualSIPFees + projectedTradingFees.buy
                + projectedTradingFees.sell + projectedTradingFees.swap
    IN  [annualSIPFees |-> MathRound(annualSIPFees, AnnualUnit),
         projectedTradingFees |->
             [buy |-> MathRound(projectedTradingFees.buy, AnnualUnit),
              sell |-> MathRound(projectedTradingFees.sell, AnnualUnit),
              swap |-> MathRound(projectedTradingFees.swap, AnnualUnit)],
         totalAnnualFees |-> MathRound(totalAnnualFees, AnnualUnit)]

CalculateAnnualFees ==
    /\ \E sipPlans \in SipPlanLists :
           last' = Returned("calculateAnnualFees", [sipPlans |-> sipPlans],
                            calculateAnnualFees(sipPlans))
    /\ UNCHANGED <<heap, server>>

(***************************************************************************)
(* calculateSpread(marketPrice, spreadRate = 0.01): marketPrice, bid, ask, *)
(* mid and spread in paise, spreadRate and spreadPercentage in percent,    *)
(* the unrounded bid and ask in 1/100 paise.                               *)
(***************************************************************************)
MaxMid == 60

\* market prices: up to MaxMid paise, and 7500 rupees with and without 30
\* paise
MidPrices == (0 .. MaxMid) \cup {7500 * 100, 7500 * 100 + 30}

\* spread rates in percent
SpreadRates == {1, 2}

\* spreadRate = 0.01, the value of the parameter when it is left out
defaultSpreadRate == 1

calculateSpread(marketPrice, spreadRate) ==
    LET bid == marketPrice * (100 - spreadRate)
        ask == marketPrice * (100 + spreadRate)
        mid == marketPrice
    IN  [bid |-> MathRound(bid, 100),
         ask |-> MathRound(ask, 100),
         mid |-> mid,
         spread |-> MathRound(ask - bid, 100),
         spreadPercentage |-> spreadRate]

\* calculateSpread(marketPrice) and calculateSpread(marketPrice, spreadRate)
CalculateSpread ==
    /\ \E marketPrice \in MidPrices :
           \/ last' = Returned("calculateSpread", [marketPrice |-> marketPrice],
                               calculateSpread(marketPrice, defaultSpreadRate))
           \/ \E spreadRate \in SpreadRates :
                  last' = Returned("calculateSpread",
                                   [marketPrice |-> marketPrice,
                                    spreadRate |-> spreadRate],
                                   calculateSpread(marketPrice, spreadRate))
    /\ UNCHANGED <<heap, server>>

(***************************************************************************)
(* calculateGST(amount, gstRate = 0.18): amount and result in 1/GstUnit    *)
(* paise, gstRate in percent.  The amounts are paise, or 1/32 rupee, which *)
(* a double holds exactly; a rate other than the default is applied to     *)
(* amounts whose product with it a double holds exactly as well.           *)
(***************************************************************************)
GstUnit == 1600
MaxGst == 40

GstPaise == {GstUnit * n : n \in 0 .. MaxGst}
GstDyadic == {((100 * GstUnit) \div 32) * k : k \in 0 .. MaxGst}
GstRates == {25, 50, 100}

\* gstRate = 0.18, the value of the parameter when it is left out
defaultGstRate == 18

\* Math.round(x * 100) / 100 cutting the fraction of a paisa off
round2_truncate(x) == (x \div GstUnit) * GstUnit

\* Math.round(x * 100) / 100
round2(x) == MathRound(x, GstUnit) * GstUnit

calculateGST(amount, gstRate) == round2((amount * gstRate) \div 100)

\* calculateGST(amount) and calculateGST(amount, gstRate)
CalculateGST ==
    /\ \/ \E amount \in GstPaise :
              last' = Returned("calculateGST", [amount |-> amount],
                               calculateGST(amount, defaultGstRate))
       \/ \E amount \in GstPaise \cup GstDyadic, gstRate \in GstRates :
              /\ amount \in GstDyadic \/ gstRate = 100
              /\ last' = Returned("calculateGST",
                                  [amount |-> amount, gstRate |-> gstRate],
                                  calculateGST(amount, gstRate))
    /\ UNCHANGED <<heap, server>>

(***************************************************************************)
(* The module holds no state of its own: it declares functions and exports *)
(* them, and every table is a constant local to a call.  The state of the  *)
(* model is the last call made to the module and the objects its callers   *)
(* keep between calls (heap).  The callers of the functions above build    *)
(* the arguments of each call afresh and keep none.                        *)
(***************************************************************************)
NoObjects == [none |-> TRUE]

\* no store is attached: findUserById and getPaymentById are placeholders
\* that find nothing, and the functions above use neither
NoStores ==
    /\ users = NoObjects
    /\ requests = <<>>
    /\ payments = NoObjects
    /\ refunds = <<>>

Init ==
    /\ last = NoCall
    /\ heap = NoObjects
    /\ NoStores

Next ==
    \/ CalculateFees
    \/ CalculateSwapFee
    \/ CalculateSIPFee
    \/ CalculateRedemptionFees

Spec == Init /\ [][Next]_vars

\* the limit and portfolio functions, which share no state with the fee
\* functions above
NextAnalytics ==
    \/ GetMinimumAmounts
    \/ GetMaximumAmounts
    \/ CalculateProfitLoss
    \/ CalculateDiversification

SpecAnalytics == Init /\ [][NextAnalytics]_vars

\* the projection and pricing functions
NextPricing ==
    \/ CalculateAnnualFees
    \/ CalculateSpread
    \/ CalculateGST

SpecPricing == Init /\ [][NextPricing]_vars

(***************************************************************************)
(* Calls on objects the caller keeps: a portfolio, a list of SIP plans and *)
(* a user, passed by reference to any number of calls in any order.  Each  *)
(* call runs to its end before the next one starts (the functions are      *)
(* synchronous).  None of the functions assigns to a property of an        *)
(* argument: calculateDiversification fills its own allocation and weights *)
(* (lines 204-215), calculateAnnualFees its own projectedTradingFees       *)
(* (lines 310-324), and reduce and forEach only read the list.             *)
(***************************************************************************)
HeldPortfolios == {portfolio \in Portfolios : DOMAIN portfolio = {"gold", "silver"}}
HeldPlanLists == {sipPlans \in SipPlanLists : Len(sipPlans) <= 1}

Heaps ==
    [portfolio : HeldPortfolios, sipPlans : HeldPlanLists, user : LimitUsers]

InitHeld ==
    /\ last = NoCall
    /\ heap \in Heaps
    /\ NoStores

\* calculateFees({type, asset, amount, marketPrice, user}) with the kept user
CalculateFeesOfHeld ==
    /\ \E type \in Types, asset \in Assets, amount \in {1},
          marketPrice \in {7500} :
           last' = Returned("calculateFees",
                            [type |-> type, asset |-> asset,
                             amount |-> amount, marketPrice |-> marketPrice,
                             user |-> heap.user],
                            calculateFees(type, asset, amount, marketPrice,
                                          heap.user))
    /\ UNCHANGED <<heap, server>>

\* getMaximumAmounts(asset, user) with the kept user
GetMaximumAmountsOfHeld ==
    /\ \E asset \in Assets :
           last' = Returned("getMaximumAmounts",
                            [asset |-> asset, user |-> heap.user],
                            getMaximumAmounts(asset, heap.user))
    /\ UNCHANGED <<heap, server>>

\* calculateDiversification(portfolio) with the kept portfolio
CalculateDiversificationOfHeld ==
    /\ last' = Returned("calculateDiversification",
                        [portfolio |-> heap.portfolio],
                        calculateDiversification(heap.portfolio))
    /\ UNCHANGED <<heap, server>>

\* calculateAnnualFees taking the plans off the list as it adds them up
CalculateAnnualFeesOfHeld_draining ==
    /\ last' = Returned("calculateAnnualFees", [sipPlans |-> heap.sipPlans],
                        calculateAnnualFees(heap.sipPlans))
    /\ heap' = [heap EXCEPT !.sipPlans = <<>>]
    /\ UNCHANGED server

\* calculateAnnualFees(sipPlans) with the kept list of plans
CalculateAnnualFeesOfHeld ==
    /\ last' = Returned("calculateAnnualFees", [sipPlans |-> heap.sipPlans],
                        calculateAnnualFees(heap.sipPlans))
    /\ UNCHANGED <<heap, server>>

NextHeld ==
    \/ CalculateFeesOfHeld
    \/ GetMaximumAmountsOfHeld
    \/ CalculateDiversificationOfHeld
    \/ CalculateAnnualFeesOfHeld

SpecHeld == InitHeld /\ [][NextHeld]_vars

(***************************************************************************)
(* processRefund(params) of the payments module, with getPaymentById and   *)
(* saveRefund backed by a store: payments is the stored payment the        *)
(* refunds are asked against (NoObjects when there is none), refunds the   *)
(* stored refunds in the order they were saved.  Amounts in rupees.        *)
(***************************************************************************)
MaxPayment == 2
MaxRefunds == 2

PaymentStatuses == {"INITIATED", "COMPLETED", "FAILED"}
PaymentMethods == {"UPI", "CARD", "WALLET"}

StoredPayments ==
    [amount : 1 .. MaxPayment, status : PaymentStatuses,
     method : PaymentMethods] \cup {NoObjects}

RefundAmounts == 0 .. (MaxPayment + 1)

InitRefund ==
    /\ last = NoCall
    /\ heap = NoObjects
    /\ users = NoObjects
    /\ requests = <<>>
    /\ payments \in StoredPayments
    /\ refunds = <<>>

\* getPaymentById(originalPaymentId)
getPaymentById == payments

\* the refunds stored once saveRefund(refund) has run
saveRefund(refund) == Append(refunds, refund)

\* the refunds stored once updateRefundStatus(refundId, status) has run on
\* the refund saved last
updateRefundStatus(saved, status) ==
    [saved EXCEPT ![Len(saved)].status = status]

ProcessRefund ==
    /\ Len(refunds) < MaxRefunds
    /\ \E amount \in RefundAmounts :
           LET params == [amount |-> amount]
               originalPayment == getPaymentById
               refund == [amount |-> amount, status |-> "PROCESSING"]
           IN  IF originalPayment = NoObjects
                  \/ originalPayment.status # "COMPLETED"
               THEN /\ last' = Threw("processRefund", params,
                                     "Invalid or incomplete original payment")
                    /\ UNCHANGED refunds
               ELSE IF originalPayment.amount < amount
               THEN /\ last' = Threw("processRefund", params,
                                     "Refund amount exceeds original payment")
                    /\ UNCHANGED refunds
               ELSE IF originalPayment.method \notin
                           {"UPI", "BANK_TRANSFER", "CARD", "NET_BANKING"}
               THEN /\ last' = Threw("processRefund", params,
                                     "Unsupported payment method for refund")
                    /\ refunds' = saveRefund(refund)
               ELSE /\ last' = Returned("processRefund", params,
                                        [status |-> "COMPLETED",
                                         amount |-> amount])
                    /\ refunds' = updateRefundStatus(saveRefund(refund),
                                                     "COMPLETED")
    /\ UNCHANGED <<heap, users, requests, payments>>

NextRefund ==
    \/ ProcessRefund

SpecRefund == InitRefund /\ [][NextRefund]_vars

(***************************************************************************)
(* POST /api/trade/sell and POST /api/trade/swap of one user, selling or   *)
(* swapping gold (the swap is into stablecoin), with findUserById and      *)
(* saveUser backed by a store shared by all requests.  users is the stored *)
(* portfolio, requests the requests being handled, each at the await it is *)
(* suspended at (pc) with the user object it works on.  findUserById hands *)
(* out the stored object itself (a store in memory) or a copy of it (a     *)
(* database): byReference.  Gold balances in whole grams, stablecoin       *)
(* balances in 1/100 BINR, prices in paise.                                *)
(***************************************************************************)
OpeningBalance == 2
MaxRequests == 2

\* rates[asset].price of getMarketRates, in paise: base prices 6025.50 and
\* 1.0 moved by at most 0.2% and 0.01% and rounded to the paisa
rates == [gold |-> 602600, stablecoin |-> 100]

InitTrade ==
    /\ last = NoCall
    /\ heap = NoObjects
    /\ \E byReference \in BOOLEAN :
           users = [portfolio |-> [gold |-> [balance |-> OpeningBalance],
                                   stablecoin |-> [balance |-> 0]],
                    byReference |-> byReference]
    /\ requests = <<>>
    /\ payments = NoObjects
    /\ refunds = <<>>

\* the user object request i works on
userOf(i) == IF users.byReference THEN users.portfolio ELSE requests[i].user

\* a request arrives with a valid asset: the handler runs up to
\* await findUserById(userId)
ReceiveTrade ==
    /\ Len(requests) < MaxRequests
    /\ \E kind \in {"sell", "swap"}, amount \in 1 .. OpeningBalance :
           requests' = Append(requests,
                              [kind |-> kind, amount |-> amount,
                               pc |-> "findUserById", user |-> NoObjects])
    /\ UNCHANGED <<last, heap, users, payments, refunds>>

\* findUserById resolves: the balance is checked, and the handler answers
\* 400 or runs up to await getMarketRates()
CheckBalance ==
    /\ \E i \in 1 .. Len(requests) :
           /\ requests[i].pc = "findUserById"
           /\ LET user == users.portfolio
                  userBalance == user.gold.balance
              IN  requests' =
                      [requests EXCEPT
                          ![i].user = user,
                          ![i].pc = IF userBalance < requests[i].amount
                                    THEN "400"
                                    ELSE "getMarketRates"]
    /\ UNCHANGED <<last, heap, users, payments, refunds>>

\* sell: getMarketRates resolves, the fees are calculated and the handler
\* runs up to await saveTransaction(transaction)
SellFees ==
    /\ \E i \in 1 .. Len(requests) :
           /\ requests[i].kind = "sell"
           /\ requests[i].pc = "getMarketRates"
           /\ LET amount == requests[i].amount
                  marketPrice == rates.gold
              IN  last' = Returned("calculateFees",
                                   [type |-> "sell", asset |-> "gold",
                                    amount |-> amount,
                                    marketPrice |-> marketPrice,
                                    user |-> userOf(i)],
                                   calculateFees("sell", "gold", amount,
                                                 marketPrice, userOf(i)))
           /\ requests' = [requests EXCEPT ![i].pc = "saveTransaction"]
    /\ UNCHANGED <<heap, users, payments, refunds>>

\* sell: saveTransaction resolves, the balance is debited and the user
\* saved; the handler answers 200
SellDebit ==
    /\ \E i \in 1 .. Len(requests) :
           /\ requests[i].kind = "sell"
           /\ requests[i].pc = "saveTransaction"
           /\ LET user == [userOf(i) EXCEPT
                              !.gold.balance = @ - requests[i].amount]
              IN  /\ users' = [users EXCEPT !.portfolio = user]
                  /\ requests' = [requests EXCEPT ![i].user = user,
                                                  ![i].pc = "200"]
    /\ UNCHANGED <<last, heap, payments, refunds>>

\* swap: getMarketRates resolves, the swap fee is calculated, the balances
\* are debited and credited and the user saved; the handler runs up to
\* await saveTransaction(sellTransaction)
SwapDebit ==
    /\ \E i \in 1 .. Len(requests) :
           /\ requests[i].kind = "swap"
           /\ requests[i].pc = "getMarketRates"
           /\ LET amount == requests[i].amount
                  fromValue == amount * rates.gold
                  receivedAmount == (fromValue * 100) \div rates.stablecoin
                  swapFees == calculateSwapFee(fromValue)
                  finalAmount ==
                      receivedAmount
                          - (receivedAmount * swapFees.percentage) \div 1000
                  user == [userOf(i) EXCEPT
                              !.gold.balance = @ - amount,
                              !.stablecoin.balance = @ + finalAmount]
              IN  /\ last' = Returned("calculateSwapFee",
                                      [amount |-> fromValue], swapFees)
                  /\ users' = [users EXCEPT !.portfolio = user]
                  /\ requests' = [requests EXCEPT ![i].user = user,
                                                  ![i].pc = "saveTransaction"]
    /\ UNCHANGED <<heap, payments, refunds>>

\* swap: the transactions are saved; the handler answers 200
SwapRespond ==
    /\ \E i \in 1 .. Len(requests) :
           /\ requests[i].kind = "swap"
           /\ requests[i].pc = "saveTransaction"
           /\ requests' = [requests EXCEPT ![i].pc = "200"]
    /\ UNCHANGED <<last, heap, users, payments, refunds>>

NextTrade ==
    \/ ReceiveTrade
    \/ CheckBalance
    \/ SellFees
    \/ SellDebit
    \/ SwapDebit
    \/ SwapRespond

SpecTrade == InitTrade /\ [][NextTrade]_vars

(***************************************************************************)
(* The claims.  In each, the call the claim is about is the last call.     *)
(***************************************************************************)
IsCall(f) == last.fn = f

\* a trade with quantity > 0 and midPrice > 0
ValidTrade ==
    /\ IsCall("calculateFees")
    /\ last.args.amount > 0
    /\ last.args.marketPrice > 0

\* a redemption with quantityGrams > 0
ValidRedemption ==
    /\ IsCall("calculateRedemptionFees")
    /\ last.args.amount > 0

\* C1: for every trade with quantity > 0 and midPrice > 0, the returned
\* totalFee is the sum of the returned spreadFee, platformFee and gst (a sum
\* of paise is its own rounding to 2 places), and totalFee >= 0.
C1_TotalFeeIsSumOfReturnedFees ==
    ValidTrade =>
        /\ last.out.totalFee =
               last.out.spreadFee + last.out.platformFee + last.out.gst
        /\ last.out.totalFee >= 0

\* C2: for every trade with quantity > 0 and midPrice > 0, the returned gst
\* is 18% of the sum of the returned (rounded) spreadFee and platformFee,
\* rounded to 2 places.
C2_GstOnReturnedFees ==
    ValidTrade =>
        last.out.gst =
            MathRound((last.out.spreadFee + last.out.platformFee) * 18, 100)

\* C3: for every trade with principal = quantity * midPrice > 0, spreadFee is
\* 1% and platformFee 0.1% of the principal, each rounded to 2 places; the
\* whole breakdown is the same for buy and sell, for every asset and every
\* user; 2 units at 6000 give 120, 12, 23.76 and 155.76 (1.298%).
C3_FlatFeesWhateverDirection ==
    (IsCall("calculateFees") /\ last.args.amount * last.args.marketPrice > 0) =>
        LET principal == last.args.amount * last.args.marketPrice
        IN  /\ last.out.spreadFee = MathRound(principal, 100)
            /\ last.out.platformFee = MathRound(principal, 1000)
            /\ \A type \in Types, asset \in Assets, user \in Users :
                   calculateFees(type, asset, last.args.amount,
                                 last.args.marketPrice, user) = last.out
            /\ (last.args.amount = 2 /\ last.args.marketPrice = 600000) =>
                   last.out = [spreadFee |-> 12000, platformFee |-> 1200,
                               gst |-> 2376, totalFee |-> 15576,
                               totalFeePercentage |-> Num(1298)]

\* a sell of 2 units at 6000 has been priced
C3_Witness ==
    /\ IsCall("calculateFees")
    /\ last.args.type = "sell"
    /\ last.args.amount = 2
    /\ last.args.marketPrice = 600000
    /\ last.out.totalFee = 15576

\* C4: calculateFees called with quantity <= 0 or midPrice <= 0 fails with
\* InvalidTradeParameters and returns no fee breakdown.
C4_InvalidTradeRejected ==
    (/\ IsCall("calculateFees")
     /\ (last.args.amount <= 0 \/ last.args.marketPrice <= 0)) =>
        last.threw = "InvalidTradeParameters"

\* the swap tiers as the claim states them: threshold (rupees) -> rate * 1000
C5_TierRate(t) ==
    CASE t = 1000000 -> 1
      [] t = 500000 -> 2
      [] t = 100000 -> 3
      [] t = 50000 -> 4
      [] t = 0 -> 5

\* the largest threshold that is <= the notional (paise)
C5_TierOf(amount) ==
    LET reached == {t \in {0, 50000, 100000, 500000, 1000000} : t * 100 <= amount}
    IN  CHOOSE t \in reached : \A u \in reached : u <= t

\* C5: for every notional >= 0 the rate is that of the largest threshold that
\* is <= the notional, thresholds inclusive (exactly 1,000,000 gets 0.001,
\* 999,999.99 gets 0.002), and fee = round2(notional * rate).
C5_SwapTierSelected ==
    (IsCall("calculateSwapFee") /\ last.args.amount >= 0) =>
        /\ last.out.percentage = C5_TierRate(C5_TierOf(last.args.amount))
        /\ last.out.fee =
               MathRound(last.args.amount
                            * C5_TierRate(C5_TierOf(last.args.amount)), 1000)
        /\ last.args.amount = 100000000 => last.out.percentage = 1
        /\ last.args.amount = 99999999 => last.out.percentage = 2

\* a swap of exactly 1,000,000 has been priced at 0.1%
C5_Witness ==
    /\ IsCall("calculateSwapFee")
    /\ last.args.amount = 100000000
    /\ last.out.percentage = 1
    /\ last.out.fee = 100000

\* C6: the swap rate is non-increasing in the notional: a notional >= the one
\* priced gets a rate <= its rate, a smaller one (>= 0) a rate >= its rate.
C6_SwapRateNonIncreasing ==
    (IsCall("calculateSwapFee") /\ last.args.amount >= 0) =>
        \A b \in SwapAmounts :
            /\ b >= last.args.amount =>
                   calculateSwapFee(b).percentage <= last.out.percentage
            /\ (b >= 0 /\ b <= last.args.amount) =>
                   calculateSwapFee(b).percentage >= last.out.percentage

\* a swap just under 500,000 has been priced, and 500,000 is priced lower
C6_Witness ==
    /\ IsCall("calculateSwapFee")
    /\ last.args.amount = 49999999
    /\ last.out.percentage = 3
    /\ calculateSwapFee(50000000).percentage = 2

\* C7: calculateSIPFee returns 50 for monthly, v with v * 4 = 50 for weekly,
\* v with v * 30 = 50 for daily and 50 for every other frequency, whatever
\* the amount of the plan.
C7_SipFeeByFrequency ==
    IsCall("calculateSIPFee") =>
        LET f == last.args.frequency
            v == last.out
        IN  /\ f = "monthly" => v = 50 * SipUnit
            /\ f = "weekly" => v * 4 = 50 * SipUnit
            /\ f = "daily" => v * 30 = 50 * SipUnit
            /\ f \notin {"monthly", "weekly", "daily"} => v = 50 * SipUnit

\* the fee of a plan with a frequency the code does not know has been asked
C7_Witness ==
    /\ IsCall("calculateSIPFee")
    /\ last.args.frequency = "yearly"
    /\ last.args.amount = 100 * MaxSipAmount
    /\ last.out = 50 * SipUnit

\* C8: for every redemption with quantityGrams > 0 the delivery fee is set by
\* the method (and, for HOME, the quantity) alone: HOME 50 up to 10 g, 100 up
\* to 50 g, 200 above; STORE 0; VAULT 25; any other method 50; it is the same
\* for every asset.
C8_DeliveryFeeByMethod ==
    ValidRedemption =>
        LET q == last.args.amount
            m == last.args.deliveryMethod
        IN  /\ last.out.deliveryFee =
                   100 * (CASE m = "HOME" /\ q <= 10 * GramUnit -> 50
                            [] m = "HOME" /\ q > 10 * GramUnit
                                          /\ q <= 50 * GramUnit -> 100
                            [] m = "HOME" /\ q > 50 * GramUnit -> 200
                            [] m = "STORE" -> 0
                            [] m = "VAULT" -> 25
                            [] OTHER -> 50)
            /\ \A asset \in AssetInputs :
                   calculateRedemptionFees(asset, q, m).deliveryFee
                       = last.out.deliveryFee

\* exactly 10 g of gold has been redeemed by HOME delivery for 50
C8_Witness ==
    /\ ValidRedemption
    /\ last.args.asset = "gold"
    /\ last.args.deliveryMethod = "HOME"
    /\ last.args.amount = 10 * GramUnit
    /\ last.out.deliveryFee = 50 * 100

\* C9: for every redemption with quantityGrams > 0, insuranceFee is 0.5% and
\* processingFee 1% of the value, each rounded to 2 places, and the returned
\* totalFees is the sum of the returned deliveryFee, insuranceFee and
\* processingFee.
C9_TotalFeesIsSumOfReturnedFees ==
    ValidRedemption =>
        LET value == redemptionValue(last.args.asset, last.args.amount)
        IN  /\ last.out.insuranceFee = MathRound(value, 200 * RedUnit)
            /\ last.out.processingFee = MathRound(value, 100 * RedUnit)
            /\ last.out.totalFees =
                   last.out.deliveryFee + last.out.insuranceFee
                       + last.out.processingFee

\* C10: for every redemption with quantityGrams > 0, the returned netValue is
\* the value minus the returned (rounded) totalFees: netValue + totalFees =
\* quantityGrams * price exactly.
C10_NetValuePlusTotalFeesIsValue ==
    ValidRedemption =>
        last.out.netValue + last.out.totalFees * RedUnit
            = redemptionValue(last.args.asset, last.args.amount)

\* C11: for each of the four assets and every tier, getMaximumAmounts returns
\* baseMax.amount * m and baseMax.inr * m with m = 0.1, 0.5, 1.0, 2.0 for
\* tiers 1..4 and 0.1 for any other (missing or zero) tier; getMinimumAmounts
\* returns the same values whatever the tier.
C11_TierMultiplier(user) ==
    IF "kycLevel" \notin DOMAIN user THEN 1
    ELSE CASE user.kycLevel = 1 -> 1
           [] user.kycLevel = 2 -> 5
           [] user.kycLevel = 3 -> 10
           [] user.kycLevel = 4 -> 20
           [] OTHER -> 1

C11_MaximumScalesWithTier ==
    /\ (IsCall("getMaximumAmounts") /\ last.args.asset \in Assets) =>
           /\ last.threw = "none"
           /\ last.out.amount = baseMaximums[last.args.asset].amount
                                    * C11_TierMultiplier(last.args.user)
           /\ last.out.inr = baseMaximums[last.args.asset].inr
                                 * C11_TierMultiplier(last.args.user)
    /\ (IsCall("getMinimumAmounts") /\ last.args.asset \in Assets) =>
           last.out = minimums[last.args.asset]

\* the maximum of a VIP (tier 4) user for silver has been asked: 100,000 g
C11_Witness ==
    /\ IsCall("getMaximumAmounts")
    /\ last.args.asset = "silver"
    /\ last.args.user = [kycLevel |-> 4]
    /\ last.out.amount = 100000 * LimitUnit

\* C12: a limit lookup (minimum or maximum) for an asset that is not gold,
\* silver, platinum or stablecoin fails with UnknownAsset.
C12_UnknownAssetRejected ==
    (/\ IsCall("getMinimumAmounts") \/ IsCall("getMaximumAmounts")
     /\ last.args.asset \notin Assets) =>
        last.threw = "UnknownAsset"

\* C15 as stated: for all invested >= 0 and currentValue >= 0, the returned
\* profit is currentValue - invested, the returned profitPercent is
\* profit / invested * 100 when invested > 0 and 0 when invested = 0, and
\* isProfit is true exactly when the returned profit is >= 0.
C15_ProfitLossAsStated ==
    IsCall("calculateProfitLoss") =>
        LET invested == last.args.investedAmount
            profit == last.args.currentValue - invested
        IN  /\ last.out.profit * PlUnit = profit
            /\ invested > 0 =>
                   last.out.profitPercentage * invested = profit * 100 * 100
            /\ invested = 0 => last.out.profitPercentage = 0
            /\ last.out.isProfit <=> (last.out.profit >= 0)

\* C15 as amended: the returned profit is currentValue - invested rounded to
\* 2 places, the returned profitPercentage is profit / invested * 100 rounded
\* to 2 places when invested > 0 and 0 when invested = 0, and isProfit is
\* true exactly when currentValue >= invested (the unrounded profit is >= 0).
C15_ProfitLossRounded ==
    IsCall("calculateProfitLoss") =>
        LET invested == last.args.investedAmount
            profit == last.args.currentValue - invested
        IN  /\ last.out.profit = MathRound(profit, PlUnit)
            /\ invested > 0 =>
                   last.out.profitPercentage
                       = MathRound(profit * 100 * 100, invested)
            /\ invested = 0 => last.out.profitPercentage = 0
            /\ last.out.isProfit <=> (last.args.currentValue >= invested)
            /\ (invested = 100 * 100 * PlUnit
                    /\ last.args.currentValue = 80 * 100 * PlUnit) =>
                   ~last.out.isProfit

\* a loss of less than half a paisa has been computed: the profit returned
\* is 0 and isProfit is false
C15_Witness ==
    /\ IsCall("calculateProfitLoss")
    /\ last.args.investedAmount = 4
    /\ last.args.currentValue = 0
    /\ last.out.profit = 0
    /\ last.out.profitPercentage = 0 - 10000
    /\ ~last.out.isProfit

\* the value of each holding, their total and the sum of their squares, as
\* the claims about calculateDiversification speak of them
C13_Total(portfolio) ==
    holdingValue(portfolio, "gold") + holdingValue(portfolio, "silver")
        + holdingValue(portfolio, "platinum")
        + holdingValue(portfolio, "stablecoin")

C13_Squares(portfolio) ==
    holdingValue(portfolio, "gold") * holdingValue(portfolio, "gold")
        + holdingValue(portfolio, "silver") * holdingValue(portfolio, "silver")
        + holdingValue(portfolio, "platinum") * holdingValue(portfolio, "platinum")
        + holdingValue(portfolio, "stablecoin")
              * holdingValue(portfolio, "stablecoin")

\* C13: for every portfolio of non-negative holdings with total value > 0,
\* diversificationScore = round(100 * (1 - hhi)), hhi the sum of the squared
\* value shares; riskLevel is LOW from 70, MEDIUM from 40, HIGH below; one
\* asset alone gives hhi 1 and score 0, four equal values give hhi 0.25,
\* score 75 and LOW.
C13_ScoreFromHerfindahl ==
    (/\ IsCall("calculateDiversification")
     /\ C13_Total(last.args.portfolio) > 0) =>
        LET p == last.args.portfolio
            total2 == C13_Total(p) * C13_Total(p)
            score == last.out.diversificationScore
            held == {a \in Assets : holdingValue(p, a) > 0}
        IN  /\ score = MathRound(100 * (total2 - C13_Squares(p)), total2)
            /\ last.out.riskLevel = (IF score >= 70 THEN "LOW"
                                     ELSE IF score >= 40 THEN "MEDIUM"
                                     ELSE "HIGH")
            /\ Cardinality(held) = 1 =>
                   /\ last.out.hhi = 10000
                   /\ score = 0
            /\ (\A a, b \in Assets : holdingValue(p, a) = holdingValue(p, b)) =>
                   /\ last.out.hhi = 2500
                   /\ score = 75
                   /\ last.out.riskLevel = "LOW"

\* four holdings of equal value have been scored 75, LOW
C13_Witness ==
    /\ IsCall("calculateDiversification")
    /\ \A a \in Assets : holdingValue(last.args.portfolio, a) = 2
    /\ last.out.diversificationScore = 75
    /\ last.out.riskLevel = "LOW"

\* the portfolio with every absent or incomplete holding made a holding of
\* balance 0
C14_Completed(portfolio) ==
    [a \in Assets |->
        IF /\ a \in DOMAIN portfolio
           /\ "balance" \in DOMAIN portfolio[a]
           /\ "currentPrice" \in DOMAIN portfolio[a]
        THEN portfolio[a]
        ELSE [balance |-> 0, currentPrice |-> HoldingPrices[a]]]

\* C14: calculateDiversification never fails on absent entries: an absent
\* entry, or one lacking balance or currentPrice, counts as value 0, and a
\* total of 0 gives score 0, an empty allocation and riskLevel LOW.
C14_AbsentHoldingsCountAsZero ==
    IsCall("calculateDiversification") =>
        /\ last.threw = "none"
        /\ last.out = calculateDiversification(C14_Completed(last.args.portfolio))
        /\ C13_Total(C14_Completed(last.args.portfolio)) = 0 =>
               /\ last.out.diversificationScore = 0
               /\ DOMAIN last.out.allocation = {}
               /\ last.out.riskLevel = "LOW"
        /\ C13_Total(C14_Completed(last.args.portfolio)) > 0 =>
               \A a \in Assets \ DOMAIN last.args.portfolio :
                   last.out.allocation[a] = [weight |-> 0, value |-> 0]

\* a portfolio with no silver entry, a gold holding lacking its balance and
\* a stablecoin holding lacking its price has been scored on its platinum
C14_Witness ==
    /\ IsCall("calculateDiversification")
    /\ DOMAIN last.args.portfolio = {"gold", "platinum", "stablecoin"}
    /\ "balance" \notin DOMAIN last.args.portfolio["gold"]
    /\ "currentPrice" \notin DOMAIN last.args.portfolio["stablecoin"]
    /\ last.args.portfolio["platinum"] = [balance |-> 1, currentPrice |-> 2]
    /\ last.out.diversificationScore = 0
    /\ last.out.riskLevel = "HIGH"
    /\ last.out.allocation["silver"].value = 0

\* the unrounded projected fee of one side of the trades, in 1/AnnualUnit
\* paise: the sum over the plans of amount * 12 * 0.01
C16_Projected(sipPlans) ==
    LET Side(plan) == (plan.amount * 12 * AnnualUnit) \div 100
    IN  SumOver(Side, sipPlans, 1)

\* twelve times the monthly SIP fees, in 1/AnnualUnit paise
C16_AnnualSip(sipPlans) ==
    LET Fee(plan) == (plan.sipFee * 100 * AnnualUnit) \div SipUnit
    IN  12 * SumOver(Fee, sipPlans, 1)

\* C16 as stated: annualSIPFees = round2(12 * sum of sipFee), buy and sell
\* equal each other and the sum over the plans of amount * 12 * 0.01, swap
\* is 0, and everything is 0 for the empty list.
C16_ProjectionAsStated ==
    IsCall("calculateAnnualFees") =>
        LET sipPlans == last.args.sipPlans
            fees == last.out.projectedTradingFees
        IN  /\ last.out.annualSIPFees
                   = MathRound(C16_AnnualSip(sipPlans), AnnualUnit)
            /\ fees.buy = fees.sell
            /\ fees.buy * AnnualUnit = C16_Projected(sipPlans)
            /\ fees.swap = 0
            /\ sipPlans = <<>> =>
                   /\ last.out.annualSIPFees = 0
                   /\ fees = [buy |-> 0, sell |-> 0, swap |-> 0]
                   /\ last.out.totalAnnualFees = 0

\* C16 amended: as above, but buy and sell are the sum over the plans of
\* amount * 12 * 0.01 rounded to 2 places.
C16_ProjectionRounded ==
    IsCall("calculateAnnualFees") =>
        LET sipPlans == last.args.sipPlans
            fees == last.out.projectedTradingFees
        IN  /\ last.out.annualSIPFees
                   = MathRound(C16_AnnualSip(sipPlans), AnnualUnit)
            /\ fees.buy = fees.sell
            /\ fees.buy = MathRound(C16_Projected(sipPlans), AnnualUnit)
            /\ fees.swap = 0
            /\ sipPlans = <<>> =>
                   /\ last.out.annualSIPFees = 0
                   /\ fees = [buy |-> 0, sell |-> 0, swap |-> 0]
                   /\ last.out.totalAnnualFees = 0

\* a monthly plan of 1000.03 rupees and a daily plan of 0.03 rupees have
\* been projected: 12 * 0.01 * 1000.06 = 120.0072 on each side, returned
\* as 120.01
C16_Witness ==
    /\ IsCall("calculateAnnualFees")
    /\ last.args.sipPlans
           = <<[amount |-> 1000 * 100 + 3, sipFee |-> 50 * SipUnit],
               [amount |-> 3, sipFee |-> (50 * SipUnit) \div 30]>>
    /\ last.out.annualSIPFees = 62000
    /\ last.out.projectedTradingFees = [buy |-> 12001, sell |-> 12001, swap |-> 0]

\* C17: totalAnnualFees = round2(returned annualSIPFees + returned buy +
\* returned sell + returned swap): the reported total agrees with the
\* reported components.
C17_TotalIsSumOfReturnedFees ==
    IsCall("calculateAnnualFees") =>
        last.out.totalAnnualFees
            = last.out.annualSIPFees + last.out.projectedTradingFees.buy
                  + last.out.projectedTradingFees.sell
                  + last.out.projectedTradingFees.swap

\* C18: for every mid price > 0 and rate in (0, 1), bid = round2(mid * (1 -
\* rate)), ask = round2(mid * (1 + rate)), bid <= mid <= ask, and the spread
\* is round2(ask - bid) of the bid and ask returned.
C18_SpreadOfReturnedBidAndAsk ==
    (/\ IsCall("calculateSpread")
     /\ last.args.marketPrice > 0) =>
        LET mid == last.args.marketPrice
            rate == last.out.spreadPercentage
        IN  /\ last.out.bid = MathRound(mid * (100 - rate), 100)
            /\ last.out.ask = MathRound(mid * (100 + rate), 100)
            /\ last.out.bid <= mid
            /\ mid <= last.out.ask
            /\ last.out.spread = last.out.ask - last.out.bid

\* the amount calculateGST rounded in the last call, in 1/(100 * GstUnit)
\* paise
C20_Product ==
    last.args.amount * (IF "gstRate" \in DOMAIN last.args
                        THEN last.args.gstRate
                        ELSE defaultGstRate)

\* the same in 1/GstUnit paise
C20_Unrounded == C20_Product \div 100

\* C20: round2 is idempotent on non-negative amounts (rounding the rounded
\* amount returns it unchanged) and rounds an exact half of a paisa upward;
\* the rounded amount is a whole number of paise, the nearest one.
C20_RoundingIdempotentHalfUp ==
    IsCall("calculateGST") =>
        /\ round2(last.out) = last.out
        /\ calculateGST(last.out, 100) = last.out
        /\ last.out % GstUnit = 0
        /\ 2 * (C20_Unrounded - last.out) < GstUnit
        /\ 2 * (last.out - C20_Unrounded) <= GstUnit
        /\ 2 * (C20_Unrounded % GstUnit) = GstUnit =>
               last.out = C20_Unrounded + GstUnit \div 2

\* 0.125 rupee, 12.5 paise, has been rounded to 13 paise
C20_Witness ==
    /\ IsCall("calculateGST")
    /\ last.args = [amount |-> (100 * GstUnit) \div 8, gstRate |-> 100]
    /\ 2 * (C20_Unrounded % GstUnit) = GstUnit
    /\ last.out = 13 * GstUnit

\* C19: the functions are pure: whatever calls are made in whatever order,
\* each call leaves the objects it was given (portfolio, sipPlans, user)
\* unchanged, and a call with the arguments of an earlier call returns what
\* that call returned (the result of the last call is what the function
\* returns for the kept objects now).
C19_CallsLeaveArgumentsUnchanged ==
    /\ [][heap' = heap]_vars
    /\ [](IsCall("calculateFees") =>
              /\ last.args.user = heap.user
              /\ last.out = calculateFees(last.args.type, last.args.asset,
                                          last.args.amount,
                                          last.args.marketPrice, heap.user))
    /\ [](IsCall("getMaximumAmounts") =>
              /\ last.args.user = heap.user
              /\ last.out = getMaximumAmounts(last.args.asset, heap.user))
    /\ [](IsCall("calculateDiversification") =>
              /\ last.args.portfolio = heap.portfolio
              /\ last.out = calculateDiversification(heap.portfolio))
    /\ [](IsCall("calculateAnnualFees") =>
              /\ last.args.sipPlans = heap.sipPlans
              /\ last.out = calculateAnnualFees(heap.sipPlans))

\* the fees of a kept list of one plan have been projected, and the list
\* still holds the plan
C19_Witness ==
    /\ IsCall("calculateAnnualFees")
    /\ Len(last.args.sipPlans) = 1
    /\ last.out.annualSIPFees > 0
    /\ heap.sipPlans = last.args.sipPlans
    /\ heap.portfolio.gold = [balance |-> 1, currentPrice |-> 2]

\* C21: calculateRedemptionFees called with quantityGrams <= 0 fails with
\* InvalidAmount and returns no breakdown.
C21_InvalidRedemptionRejected ==
    (/\ IsCall("calculateRedemptionFees")
     /\ last.args.amount <= 0) =>
        last.threw = "InvalidAmount"

\* C22: every table keyed by asset has an entry for each of the four assets
\* and no lookup substitutes a default for an absent key; for the redemption
\* price table: the asset of a redemption is in the table when it is one of
\* the four, and a redemption of an asset the table lacks does not go
\* through at a price of 1.
C22_AssetTablesTotal ==
    IsCall("calculateRedemptionFees") =>
        /\ last.args.asset \in Assets =>
               last.args.asset \in DOMAIN marketPrices
        /\ last.args.asset \notin DOMAIN marketPrices =>
               last.threw # "none"

\* C23: for every asset, delivery method and quantityGrams > 0 the fees do
\* not exceed the redeemed value: every returned amount, netValue included,
\* is >= 0.
C23_NetValueNonNegative ==
    ValidRedemption =>
        /\ last.out.deliveryFee >= 0
        /\ last.out.insuranceFee >= 0
        /\ last.out.processingFee >= 0
        /\ last.out.totalFees >= 0
        /\ last.out.netValue >= 0

\* C24: for every portfolio of non-negative holdings with total value > 0
\* the Herfindahl index lies in [0.25, 1] and the diversificationScore in
\* [0, 75], so riskLevel LOW is reached only with a score of 70 to 75.
C24_HerfindahlRange ==
    (/\ IsCall("calculateDiversification")
     /\ C13_Total(last.args.portfolio) > 0) =>
        /\ 4 * C13_Squares(last.args.portfolio)
               >= C13_Total(last.args.portfolio) * C13_Total(last.args.portfolio)
        /\ C13_Squares(last.args.portfolio)
               <= C13_Total(last.args.portfolio) * C13_Total(last.args.portfolio)
        /\ last.out.hhi >= 2500
        /\ last.out.hhi <= 10000
        /\ last.out.diversificationScore >= 0
        /\ last.out.diversificationScore <= 75
        /\ last.out.riskLevel = "LOW" =>
               last.out.diversificationScore >= 70

\* three holdings worth 2 and one worth 1 have been rated LOW with a score
\* of 73
C24_Witness ==
    /\ IsCall("calculateDiversification")
    /\ C13_Total(last.args.portfolio) = 7
    /\ last.out.riskLevel = "LOW"
    /\ last.out.diversificationScore = 73
    /\ last.out.hhi < 10000

\* C25: a SIP plan costs 50 per month whatever its frequency: for a single
\* plan whose sipFee is calculateSIPFee(frequency), frequency daily, weekly
\* or monthly, calculateAnnualFees reports annualSIPFees = 600.
C25_AnnualSipFeeIs600 ==
    (/\ IsCall("calculateAnnualFees")
     /\ Len(last.args.sipPlans) = 1
     /\ \E frequency \in {"daily", "weekly", "monthly"} :
            last.args.sipPlans[1].sipFee = calculateSIPFee(frequency)) =>
        last.out.annualSIPFees = 600 * 100

\* C26 as stated: riskLevel is a function of diversificationScore alone: any
\* two portfolios, the empty or zero-value one included, that receive the
\* same score receive the same riskLevel.
C26_RiskLevelByScoreAlone ==
    IsCall("calculateDiversification") =>
        \A other \in Portfolios :
            calculateDiversification(other).diversificationScore
                    = last.out.diversificationScore =>
                calculateDiversification(other).riskLevel = last.out.riskLevel

\* C26 amended: any two portfolios of total value > 0 that receive the same
\* score receive the same riskLevel; a portfolio of total value 0 receives
\* score 0 with LOW, a portfolio of total value > 0 and score 0 receives
\* HIGH.
C26_RiskLevelByScoreAndTotal ==
    IsCall("calculateDiversification") =>
        /\ \A other \in Portfolios :
               (/\ (C13_Total(other) > 0)
                       = (C13_Total(last.args.portfolio) > 0)
                /\ calculateDiversification(other).diversificationScore
                       = last.out.diversificationScore) =>
                   calculateDiversification(other).riskLevel
                       = last.out.riskLevel
        /\ C13_Total(last.args.portfolio) = 0 =>
               /\ last.out.diversificationScore = 0
               /\ last.out.riskLevel = "LOW"
        /\ (/\ C13_Total(last.args.portfolio) > 0
            /\ last.out.diversificationScore = 0) =>
               last.out.riskLevel = "HIGH"

\* a portfolio of gold alone has been scored 0 and rated HIGH
C26_Witness ==
    /\ IsCall("calculateDiversification")
    /\ DOMAIN last.args.portfolio = {"gold"}
    /\ C13_Total(last.args.portfolio) = 4
    /\ last.out.diversificationScore = 0
    /\ last.out.riskLevel = "HIGH"

\* C27 as stated: a larger swap never costs less than a smaller one: for
\* all notionals 0 <= a <= b, fee(a) <= fee(b), also across a threshold.
C27_SwapFeeNonDecreasing ==
    (IsCall("calculateSwapFee") /\ last.args.amount >= 0) =>
        \A b \in SwapAmounts :
            b >= last.args.amount =>
                calculateSwapFee(b).fee >= last.out.fee

\* C27 amended: for all notionals 0 <= a <= b between the same two
\* thresholds, fee(a) <= fee(b); the first notional of a tier costs less
\* than the last notional of the tier below it.
C27_SwapFeeNonDecreasingWithinTier ==
    (IsCall("calculateSwapFee") /\ last.args.amount >= 0) =>
        /\ \A b \in SwapAmounts :
               (/\ b >= last.args.amount
                /\ C5_TierOf(b) = C5_TierOf(last.args.amount)) =>
                   calculateSwapFee(b).fee >= last.out.fee
        /\ (/\ last.args.amount > 0
            /\ last.args.amount = C5_TierOf(last.args.amount) * 100) =>
               last.out.fee < calculateSwapFee(last.args.amount - 1).fee

\* a swap of 49,999.99 has been priced at 250.00, and 50,000 costs 200.00
C27_Witness ==
    /\ IsCall("calculateSwapFee")
    /\ last.args.amount = 4999999
    /\ last.out.fee = 25000
    /\ calculateSwapFee(5000000).fee = 20000

\* C28: the order window is never empty and never shrinks with a higher
\* tier: for each of the four assets and every tier (1..4 or unrecognized)
\* the minimum amount and INR equivalent are <= the maximum ones, and the
\* maximum for tier t + 1 is >= the maximum for tier t.
C28_OrderWindow ==
    (IsCall("getMaximumAmounts") /\ last.args.asset \in Assets) =>
        /\ last.threw = "none"
        /\ getMinimumAmounts(last.args.asset).amount <= last.out.amount
        /\ getMinimumAmounts(last.args.asset).inr <= last.out.inr
        /\ getMinimumAmounts(last.args.asset).unit = last.out.unit
        /\ ("kycLevel" \in DOMAIN last.args.user
                /\ last.args.user.kycLevel \in 1 .. 3) =>
               LET higher ==
                       getMaximumAmounts(last.args.asset,
                           [kycLevel |-> last.args.user.kycLevel + 1])
               IN  /\ higher.amount >= last.out.amount
                   /\ higher.inr >= last.out.inr

\* the tightest window has been asked for: stablecoin at an unrecognized
\* tier, at least 100 and at most 1,000,000 BINR
C28_Witness ==
    /\ IsCall("getMaximumAmounts")
    /\ last.args.asset = "stablecoin"
    /\ last.args.user = [kycLevel |-> 0]
    /\ last.out.amount = 1000000 * LimitUnit
    /\ getMinimumAmounts("stablecoin").amount = 100 * LimitUnit

\* the sum of the amounts of the refunds that were issued (completed)
RECURSIVE C30_Refunded(_)
C30_Refunded(i) ==
    IF i > Len(refunds) THEN 0
    ELSE (IF refunds[i].status = "COMPLETED" THEN refunds[i].amount ELSE 0)
             + C30_Refunded(i + 1)

RECURSIVE C29_Accepted(_)
C29_Accepted(i) ==
    IF i > Len(requests) THEN 0
    ELSE (IF requests[i].pc = "200" THEN requests[i].amount ELSE 0)
             + C29_Accepted(i + 1)

====
